---- MODULE Spec2Model ----
(***************************************************************************)
(* Folkvang Boss Tracker (src/main.py): the BossStorage state store, the   *)
(* HTTP routes and the WebSocket handlers that use it, and the fan-out of  *)
(* events to the connected clients.                                        *)
(*                                                                         *)
(* Every store method runs under `with self.lock`, so a store method is    *)
(* one atomic step.  A handler is a sequence of steps, one per access to   *)
(* shared state (a store method, the unlocked read of storage.bosses, an   *)
(* emit); handlers of different requests interleave between those steps,   *)
(* which is the concurrency the lock in BossStorage is there for.          *)
(*                                                                         *)
(* Python values: None is the empty tuple and a present value x is <<x>>;  *)
(* a boss field of a report is a record [t, v] with t in "str", "none",    *)
(* "list" (a JSON list: truthy, unhashable).  Time is an integer number of *)
(* hours read from a non-decreasing clock.  The Cyrillic default player    *)
(* name of report_kill is transliterated.                                  *)
(***************************************************************************)
EXTENDS Integers, Sequences, FiniteSets, TLC

\* ---------------------------------------------------------------- bounds
MaxTime == 1
MaxRequests == 3

\* ------------------------------------------------------ program constants
HistoryCap == 100
RespawnMinutes == 120

Threads == {"h1", "h2"}
Clients == {"A", "B"}

None == <<>>
Some(x) == <<x>>

BossTypes == {"mage", "healer", "spearman", "berserk"}
FloorNumbers == 1 .. 4

StrBoss(s) == [t |-> "str", v |-> s]
NoneBoss == [t |-> "none", v |-> ""]
ListBoss == [t |-> "list", v |-> "mage"]

\* the inputs the requests are drawn from
HoursInputs == {0, 1}
TokenInputs == {None, Some("admin123"), Some("wrong")}
ExpectedToken == Some("admin123")

\* str(floor) inside the f-string f'floor{floor}'
PyStr(floor) == IF floor = None THEN "None" ELSE ToString(floor[1])
FloorKey(floor) == "floor" \o PyStr(floor)
FloorKeys == {FloorKey(Some(f)) : f \in FloorNumbers}

\* truthiness of a report field (`not floor`, `not boss`)
TruthyFloor(floor) == floor # None /\ floor[1] # 0
TruthyBoss(boss) == boss.t # "none" /\ ~(boss.t = "str" /\ boss.v = "")

\* datetime.isoformat / datetime.fromisoformat on the hour clock
isoformat(t) == ToString(t)
fromisoformat(s) == CHOOSE t \in 0 .. (MaxTime + 1) : ToString(t) = s

\* datetime.now(): a reading not before the previous one
ClockReadings(last) == last .. MaxTime

\* ------------------------------------------------------------------ state
VARIABLES
  now,           \* the latest reading of the wall clock, datetime.now()
  gen,           \* number of init_bosses() calls made by reset_all
  bosses,        \* storage.bosses: floor key -> reference to an inner dict
  heap,          \* the inner dicts: reference -> (boss type -> None or record)
  kill_history,  \* storage.kill_history
  applied,       \* history entries accepted since the last initialisation
  threads,       \* the handler invocations in progress
  connected,     \* the sids registered with the transport
  inbox,         \* per client: the events sent to it, in order
  started,       \* how many requests were started
  lock           \* storage.lock: None when free, else the thread holding it

vars == <<now, gen, bosses, heap, kill_history, applied, threads, connected, inbox, started,
          lock>>

Refs == (0 .. MaxRequests) \X FloorKeys

EmptyInner == [b \in BossTypes |-> None]

\* the outer loop stopping one floor early: range(1, 4)
init_bosses_threeFloors(g) ==
  [fk \in {FloorKey(Some(f)) : f \in 1 .. 3} |-> <<g, fk>>]

\* the outer dict built by init_bosses(): fresh inner dicts of generation g
init_bosses(g) == [fk \in FloorKeys |-> <<g, fk>>]

\* the nested contents an outer dict denotes in a heap
Deref(outer, hp) == [fk \in DOMAIN outer |-> hp[outer[fk]]]

FreshState == [fk \in FloorKeys |-> EmptyInner]

KillRecord(t, player) ==
  [kill_time |-> isoformat(t), player |-> player, respawn_minutes |-> RespawnMinutes]

HistoryEntry(floor, boss, player, t) ==
  [floor |-> floor, boss |-> boss, player |-> player, kill_time |-> isoformat(t),
   respawn |-> RespawnMinutes]

\* the last n elements of s, s[-n:], for n > 0
LastN(s, n) == IF Len(s) <= n THEN s ELSE SubSeq(s, Len(s) - n + 1, Len(s))

\* the cut taken one entry late: `> 101` for `> 100`
TrimHistory_late(h) == IF Len(h) > HistoryCap + 1 THEN LastN(h, HistoryCap) ELSE h

\* lines 79-80: the history is cut to its last 100 entries
TrimHistory(h) == IF Len(h) > HistoryCap THEN LastN(h, HistoryCap) ELSE h

\* the check without its second conjunct: any boss name on a known floor passes
KillBossCheck_floorOnly(bs, floor, boss) ==
  IF FloorKey(floor) \notin DOMAIN bs THEN "False"
  ELSE IF boss.t = "list" THEN "raise"
  ELSE IF boss.t = "str" THEN "True"
  ELSE "False"

\* line 59: "True", "False", or "raise" (TypeError: unhashable type)
KillBossCheck(bs, floor, boss) ==
  IF FloorKey(floor) \notin DOMAIN bs THEN "False"
  ELSE IF boss.t = "list" THEN "raise"
  ELSE IF boss.t = "str" /\ boss.v \in BossTypes THEN "True"
  ELSE "False"

\* d[k] = v on a dict: the key is added when it is not there yet
SetItem(d, k, v) == [x \in DOMAIN d \cup {k} |-> IF x = k THEN v ELSE d[x]]

\* duplicate suppression: a slot that already holds a record keeps it
KillBossHeap_keepFirst(bs, hp, floor, boss, player, t) ==
  IF hp[bs[FloorKey(floor)]][boss.v] # None THEN hp
  ELSE [hp EXCEPT ![bs[FloorKey(floor)]] = SetItem(@, boss.v, Some(KillRecord(t, player)))]

\* the record written under the boss type on every floor
KillBossHeap_allFloors(bs, hp, floor, boss, player, t) ==
  [r \in DOMAIN hp |->
     IF \E fk \in DOMAIN bs : bs[fk] = r
     THEN SetItem(hp[r], boss.v, Some(KillRecord(t, player)))
     ELSE hp[r]]

\* lines 63-67: the slot write of kill_boss
KillBossHeap(bs, hp, floor, boss, player, t) ==
  [hp EXCEPT ![bs[FloorKey(floor)]] = SetItem(@, boss.v, Some(KillRecord(t, player)))]

\* the entry inserted at the front
KillBossHistory_prepend(h, floor, boss, player, t) ==
  TrimHistory(<<HistoryEntry(floor, boss, player, t)>> \o h)

\* lines 70-80: the history append and trim of kill_boss
KillBossHistory(h, floor, boss, player, t) ==
  TrimHistory(Append(h, HistoryEntry(floor, boss, player, t)))

\* lines 96-101: the index at which the backward loop breaks, the newest
\* entry that is not newer than the cutoff (0 when the loop runs to the end)
BreakIndex(h, cutoff) ==
  LET old == {i \in 1 .. Len(h) : ~(fromisoformat(h[i].kill_time) > cutoff)}
  IN IF old = {} THEN 0 ELSE CHOOSE i \in old : \A j \in old : j <= i

\* lines 93-103: the entries after the break index, newest first
get_recent_kills(h, t, hours) ==
  LET k == BreakIndex(h, t - hours)
  IN [i \in 1 .. (Len(h) - k) |-> h[Len(h) + 1 - i]]

\* ---------------------------------------------------------------- threads
IdleThread ==
  [op |-> "idle", pc |-> "idle", sid |-> "", floor |-> None, boss |-> NoneBoss,
   player |-> "", hours |-> 0, token |-> None, kill_time |-> 0,
   ok |-> "", written |-> None, kill_data |-> None,
   err |-> FALSE, snap |-> None, ret |-> None, recent |-> <<>>, resp |-> None,
   muts |-> 0, fanouts |-> 0]

\* a jsonify(...) response: status, the success flag, then the body parts
Response(status, success, data, error) ==
  [status |-> status, success |-> success, data |-> data, error |-> error,
   state |-> None, kills |-> None]

Report(f, b, p) == Some([floor |-> f, boss |-> b, player |-> p])

\* the request bodies / messages tried: no JSON (or a message that is not an
\* object), good reports, and one report for each way of being bad
Reports ==
  {None,
   Report(Some(1), StrBoss("mage"), Some("Alice")),
   Report(Some(2), StrBoss("healer"), None),
   Report(None, StrBoss("mage"), None),
   Report(Some(1), NoneBoss, None),
   Report(Some(5), StrBoss("mage"), None),
   Report(Some(1), StrBoss("dragon"), None),
   Report(Some(1), ListBoss, None)}

\* the boss_kill messages tried
Messages ==
  {None,
   Report(Some(1), StrBoss("mage"), None),
   Report(None, StrBoss("mage"), None),
   Report(Some(1), StrBoss("dragon"), Some("Alice"))}

\* data.get('player', default)
PlayerOr(p, default) == IF p = None THEN default ELSE p[1]

\* lines 169-176 / 239-246: the broadcast payload
KillData(floor, boss, player, kill_time) ==
  [action |-> "boss_killed", floor |-> floor, boss |-> boss, player |-> player,
   kill_time |-> kill_time, respawn_minutes |-> RespawnMinutes]

\* a handler that has produced its response returns before anything else runs
Returning == \E t \in Threads : threads[t].pc = "done"

\* ... and while a thread is inside `with self.lock` the others take no step
\* that leaves the store alone; the reads made without the lock (lines 174,
\* 244 and the serialisation of a snapshot) are not held back
Exclusive == Returning \/ lock # None

\* the pcs at which a handler is about to enter a `with self.lock` block
LockedCalls == {"kill_boss", "reset_all", "get_boss_state", "get_recent_kills"}

\* a new request is served by the first free handler thread
FreeThread(t) ==
  /\ threads[t].op = "idle"
  /\ \A u \in Threads : threads[u].op = "idle" => ~(u = "h1" /\ t = "h2")

\* a new connection gets the first sid that is not in use
FirstFree(c) == c = "B" => ("A" \in connected \/ \E t \in Threads : threads[t].sid = "A")

Busy(c) == \E t \in Threads : threads[t].op # "idle" /\ threads[t].sid = c

Event(name, success, data, state) ==
  [event |-> name, success |-> success, data |-> data, state |-> state]

\* emit to the sids in `to` that are still registered
Deliver(ib, conn, to, ev) ==
  [c \in Clients |-> IF c \in to /\ c \in conn THEN Append(ib[c], ev) ELSE ib[c]]

Init ==
  /\ now = 0
  /\ gen = 0
  /\ bosses = init_bosses(0)
  /\ heap = [r \in Refs |-> EmptyInner]
  /\ kill_history = <<>>
  /\ applied = <<>>
  /\ threads = [t \in Threads |-> IdleThread]
  /\ connected = {}
  /\ inbox = [c \in Clients |-> <<>>]
  /\ started = 0
  /\ lock = None

Store == <<gen, bosses, heap, kill_history, applied>>

\* ---- POST /api/kill, lines 154-165: parse and check the report
report_kill(t, data) ==
  /\ ~Exclusive
  /\ FreeThread(t)
  /\ started < MaxRequests
  /\ started' = started + 1
  /\ LET base == [IdleThread EXCEPT !.op = "report_kill"] IN
     threads' = [threads EXCEPT ![t] =
       IF data = None
       THEN [base EXCEPT !.pc = "done",
                         !.resp = Some(Response(400, FALSE, None, "No JSON data"))]
       ELSE LET d == data[1]
                r == [base EXCEPT !.floor = d.floor, !.boss = d.boss,
                                  !.player = PlayerOr(d.player, "Igrok")]
            IN IF ~TruthyFloor(d.floor) \/ ~TruthyBoss(d.boss)
               THEN [base EXCEPT !.pc = "done",
                              !.resp = Some(Response(400, FALSE, None, "Missing floor or boss"))]
               ELSE [r EXCEPT !.pc = "kill_boss"]]
  /\ UNCHANGED <<now, Store, connected, inbox, lock>>

\* ---- socket event boss_kill, lines 230-235: read the fields of the message
handle_boss_kill(t, c, data) ==
  /\ ~Exclusive
  /\ FreeThread(t)
  /\ c \in connected
  /\ started < MaxRequests
  /\ started' = started + 1
  /\ LET base == [IdleThread EXCEPT !.op = "handle_boss_kill", !.sid = c] IN
     threads' = [threads EXCEPT ![t] =
       IF data = None
       THEN [base EXCEPT !.pc = "emit_confirm", !.err = TRUE]
       ELSE [base EXCEPT !.pc = "kill_boss", !.floor = data[1].floor, !.boss = data[1].boss,
                         !.player = PlayerOr(data[1].player, "Unknown")]]
  /\ UNCHANGED <<now, Store, connected, inbox, lock>>

\* ---- line 56 / 87 / 92 / 107: `with self.lock:` is entered
acquire(t) ==
  /\ ~Exclusive
  /\ threads[t].pc \in LockedCalls
  /\ lock' = Some(t)
  /\ UNCHANGED <<now, Store, threads, connected, inbox, started>>

\* the lock kept when the block is left early
kill_boss_keepLock(t) ==
  LET th == threads[t]
      res == KillBossCheck(bosses, th.floor, th.boss)
      http == th.op = "report_kill"
  IN
  /\ lock = Some(t)
  /\ th.pc = "kill_boss"
  /\ IF res = "True"
     THEN \E kill_time \in ClockReadings(now) :
          /\ now' = kill_time
          /\ heap' = KillBossHeap(bosses, heap, th.floor, th.boss, th.player, kill_time)
          /\ threads' = [threads EXCEPT ![t] =
               [th EXCEPT !.pc = "append", !.kill_time = kill_time,
                          !.written = Some(KillRecord(kill_time, th.player))]]
     ELSE /\ UNCHANGED <<now, heap>>
          /\ threads' = [threads EXCEPT ![t] =
               IF http
               THEN [th EXCEPT !.ok = res, !.err = (res = "raise"), !.pc = "done",
                      !.resp = Some(IF res = "raise"
                                    THEN Response(500, FALSE, None, "unhashable type")
                                    ELSE Response(400, FALSE, None, "Invalid floor or boss"))]
               ELSE [th EXCEPT !.ok = res, !.err = (res = "raise"), !.pc = "emit_confirm"]]
  /\ UNCHANGED <<gen, bosses, kill_history, applied, connected, inbox, started, lock>>

\* ---- BossStorage.kill_boss, lines 57-67: the check, the timestamp and the
\*      slot write; on a failed check (or TypeError) the block is left
kill_boss(t) ==
  LET th == threads[t]
      res == KillBossCheck(bosses, th.floor, th.boss)
      http == th.op = "report_kill"
  IN
  /\ lock = Some(t)
  /\ th.pc = "kill_boss"
  /\ IF res = "True"
     THEN \E kill_time \in ClockReadings(now) :
          /\ now' = kill_time
          /\ heap' = KillBossHeap(bosses, heap, th.floor, th.boss, th.player, kill_time)
          /\ threads' = [threads EXCEPT ![t] =
               [th EXCEPT !.pc = "append", !.kill_time = kill_time,
                          !.written = Some(KillRecord(kill_time, th.player))]]
          /\ UNCHANGED lock
     ELSE /\ UNCHANGED <<now, heap>>
          /\ lock' = None
          /\ threads' = [threads EXCEPT ![t] =
               IF http
               THEN [th EXCEPT !.ok = res, !.err = (res = "raise"), !.pc = "done",
                      !.resp = Some(IF res = "raise"
                                    THEN Response(500, FALSE, None, "unhashable type")
                                    ELSE Response(400, FALSE, None, "Invalid floor or boss"))]
               ELSE [th EXCEPT !.ok = res, !.err = (res = "raise"), !.pc = "emit_confirm"]]
  /\ UNCHANGED <<gen, bosses, kill_history, applied, connected, inbox, started>>

\* ---- BossStorage.kill_boss, lines 69-82: the history append and trim, then
\*      the block is left and True returned
append_history(t) ==
  LET th == threads[t] IN
  /\ lock = Some(t)
  /\ th.pc = "append"
  /\ kill_history' =
       KillBossHistory(kill_history, th.floor, th.boss, th.player, th.kill_time)
  /\ applied' = Append(applied, HistoryEntry(th.floor, th.boss, th.player, th.kill_time))
  /\ lock' = None
  /\ threads' = [threads EXCEPT ![t] = [th EXCEPT !.ok = "True", !.pc = "read", !.muts = @ + 1]]
  /\ UNCHANGED <<now, gen, bosses, heap, connected, inbox, started>>

\* ---- lines 169-176 / 239-246: storage.bosses[...][boss]['kill_time'], read
\*      without the lock; subscripting None raises TypeError
read_kill_time(t) ==
  LET th == threads[t]
      slot == heap[bosses[FloorKey(th.floor)]][th.boss.v]
  IN
  /\ ~Returning
  /\ th.pc = "read"
  /\ threads' = [threads EXCEPT ![t] =
       IF slot = None
       THEN IF th.op = "report_kill"
            THEN [th EXCEPT !.err = TRUE, !.pc = "done",
                            !.resp = Some(Response(500, FALSE, None, "NoneType"))]
            ELSE [th EXCEPT !.err = TRUE, !.pc = "emit_confirm"]
       ELSE [th EXCEPT !.pc = "emit_update",
                       !.kill_data = Some(KillData(th.floor, th.boss, th.player,
                                                   slot[1].kill_time))]]
  /\ UNCHANGED <<now, Store, connected, inbox, started, lock>>

\* ---- lines 178-180 / 248: the boss_update fan-out
emit_update(t) ==
  LET th == threads[t]
      ev == Event("boss_update", TRUE, th.kill_data, None)
  IN
  /\ ~Exclusive
  /\ th.pc = "emit_update"
  /\ IF th.op = "report_kill"
     THEN /\ inbox' = Deliver(inbox, connected, Clients, ev)
          /\ threads' = [threads EXCEPT ![t] =
               [th EXCEPT !.fanouts = @ + 1, !.pc = "done",
                          !.resp = Some(Response(200, TRUE, th.kill_data, ""))]]
     ELSE /\ inbox' = Deliver(inbox, connected, Clients \ {th.sid}, ev)
          /\ threads' = [threads EXCEPT ![t] =
               [th EXCEPT !.fanouts = @ + 1, !.pc = "emit_confirm"]]
  /\ UNCHANGED <<now, Store, connected, started, lock>>

\* ---- lines 249-255: the kill_confirmed reply to the reporter
emit_confirm(t) ==
  LET th == threads[t]
      ev == IF th.err THEN Event("kill_confirmed", FALSE, None, None)
            ELSE IF th.ok = "True" THEN Event("kill_confirmed", TRUE, th.kill_data, None)
            ELSE Event("kill_confirmed", FALSE, None, None)
  IN
  /\ ~Exclusive
  /\ th.pc = "emit_confirm"
  /\ inbox' = Deliver(inbox, connected, {th.sid}, ev)
  /\ threads' = [threads EXCEPT ![t] = [th EXCEPT !.pc = "done", !.resp = Some(ev)]]
  /\ UNCHANGED <<now, Store, connected, started, lock>>

\* the token check left out
reset_all_noCheck(t, token) ==
  /\ ~Exclusive
  /\ FreeThread(t)
  /\ started < MaxRequests
  /\ started' = started + 1
  /\ threads' = [threads EXCEPT ![t] =
       [IdleThread EXCEPT !.op = "reset_all", !.pc = "reset_all", !.token = token]]
  /\ UNCHANGED <<now, Store, connected, inbox, lock>>

\* the notification sent without the store reset before it
reset_all_emitFirst(t, token) ==
  /\ ~Exclusive
  /\ FreeThread(t)
  /\ started < MaxRequests
  /\ started' = started + 1
  /\ threads' = [threads EXCEPT ![t] =
       IF token # ExpectedToken
       THEN [IdleThread EXCEPT !.op = "reset_all", !.pc = "done", !.token = token,
                               !.resp = Some(Response(401, FALSE, None, "Unauthorized"))]
       ELSE [IdleThread EXCEPT !.op = "reset_all", !.pc = "emit_reset", !.token = token]]
  /\ UNCHANGED <<now, Store, connected, inbox, lock>>

\* ---- POST /api/reset, lines 192-196: the token check
reset_all(t, token) ==
  /\ ~Exclusive
  /\ FreeThread(t)
  /\ started < MaxRequests
  /\ started' = started + 1
  /\ threads' = [threads EXCEPT ![t] =
       IF token # ExpectedToken
       THEN [IdleThread EXCEPT !.op = "reset_all", !.pc = "done", !.token = token,
                               !.resp = Some(Response(401, FALSE, None, "Unauthorized"))]
       ELSE [IdleThread EXCEPT !.op = "reset_all", !.pc = "reset_all", !.token = token]]
  /\ UNCHANGED <<now, Store, connected, inbox, lock>>

\* ---- BossStorage.reset_all, lines 105-109: a new slot map; the history stays
storage_reset_all(t) ==
  /\ lock = Some(t)
  /\ threads[t].pc = "reset_all"
  /\ lock' = None
  /\ gen' = gen + 1
  /\ bosses' = init_bosses(gen + 1)
  /\ applied' = <<>>
  /\ threads' = [threads EXCEPT ![t] = [@ EXCEPT !.pc = "emit_reset", !.muts = @ + 1]]
  /\ UNCHANGED <<now, heap, kill_history, connected, inbox, started>>

\* ---- lines 199-200: the reset_all fan-out and the response
emit_reset(t) ==
  /\ ~Exclusive
  /\ threads[t].pc = "emit_reset"
  /\ inbox' = Deliver(inbox, connected, Clients, Event("reset_all", TRUE, None, None))
  /\ threads' = [threads EXCEPT ![t] =
       [@ EXCEPT !.pc = "done", !.fanouts = @ + 1,
                 !.resp = Some(Response(200, TRUE, None, ""))]]
  /\ UNCHANGED <<now, Store, connected, started, lock>>

\* ---- socket event connect, lines 206-216: register, send `connected`
handle_connect(t, c) ==
  /\ ~Exclusive
  /\ FreeThread(t)
  /\ c \notin connected
  /\ ~Busy(c)
  /\ FirstFree(c)
  /\ started < MaxRequests
  /\ started' = started + 1
  /\ connected' = connected \cup {c}
  /\ inbox' = [inbox EXCEPT ![c] = <<Event("connected", TRUE, None, None)>>]
  /\ threads' = [threads EXCEPT ![t] =
       [IdleThread EXCEPT !.op = "handle_connect", !.sid = c, !.pc = "get_boss_state"]]
  /\ UNCHANGED <<now, Store, lock>>

\* ---- socket event disconnect, lines 221-225
handle_disconnect(c) ==
  /\ ~Exclusive
  /\ c \in connected
  /\ connected' = connected \ {c}
  /\ inbox' = [inbox EXCEPT ![c] = <<>>]
  /\ UNCHANGED <<now, Store, threads, started, lock>>

\* ---- GET /api/status, line 142
get_status(t) ==
  /\ ~Exclusive
  /\ FreeThread(t)
  /\ started < MaxRequests
  /\ started' = started + 1
  /\ threads' = [threads EXCEPT ![t] =
       [IdleThread EXCEPT !.op = "get_status", !.pc = "get_boss_state"]]
  /\ UNCHANGED <<now, Store, connected, inbox, lock>>

\* ---- BossStorage.get_boss_state, lines 85-88: self.bosses.copy() is a new
\*      outer dict holding the same inner dicts
get_boss_state(t) ==
  /\ lock = Some(t)
  /\ threads[t].pc = "get_boss_state"
  /\ lock' = None
  /\ threads' = [threads EXCEPT ![t] =
       [@ EXCEPT !.pc = "serialize", !.snap = Some(bosses),
                 !.ret = Some(Deref(bosses, heap))]]
  /\ UNCHANGED <<now, Store, connected, inbox, started>>

\* the snapshot emitted to every registered sid
serialize_broadcast(t) ==
  LET th == threads[t]
      content == Some(Deref(th.snap[1], heap))
  IN
  /\ ~Returning
  /\ th.pc = "serialize"
  /\ IF th.op = "get_status"
     THEN /\ UNCHANGED inbox
          /\ threads' = [threads EXCEPT ![t] =
               [th EXCEPT !.pc = "done",
                          !.resp = Some([Response(200, TRUE, None, "") EXCEPT !.state = content])]]
     ELSE /\ inbox' = Deliver(inbox, connected, Clients,
                        Event("initial_state", TRUE, None, content))
          /\ threads' = [threads EXCEPT ![t] = [th EXCEPT !.pc = "done"]]
  /\ UNCHANGED <<now, Store, connected, started, lock>>

\* ---- jsonify(...) / emit(...) of the snapshot: its contents are read now
serialize(t) ==
  LET th == threads[t]
      content == Some(Deref(th.snap[1], heap))
  IN
  /\ ~Returning
  /\ th.pc = "serialize"
  /\ IF th.op = "get_status"
     THEN /\ UNCHANGED inbox
          /\ threads' = [threads EXCEPT ![t] =
               [th EXCEPT !.pc = "done",
                          !.resp = Some([Response(200, TRUE, None, "") EXCEPT !.state = content])]]
     ELSE /\ inbox' = Deliver(inbox, connected, {th.sid},
                        Event("initial_state", TRUE, None, content))
          /\ threads' = [threads EXCEPT ![t] = [th EXCEPT !.pc = "done"]]
  /\ UNCHANGED <<now, Store, connected, started, lock>>

\* ---- GET /api/kills, lines 147-149, with BossStorage.get_recent_kills
get_kills(t, hours) ==
  /\ ~Exclusive
  /\ FreeThread(t)
  /\ started < MaxRequests
  /\ started' = started + 1
  /\ threads' = [threads EXCEPT ![t] =
       [IdleThread EXCEPT !.op = "get_kills", !.pc = "get_recent_kills", !.hours = hours]]
  /\ UNCHANGED <<now, Store, connected, inbox, lock>>

call_get_recent_kills(t) ==
  LET th == threads[t] IN
  /\ lock = Some(t)
  /\ th.pc = "get_recent_kills"
  /\ lock' = None
  /\ \E t_now \in ClockReadings(now) :
       LET recent == get_recent_kills(kill_history, t_now, th.hours) IN
       /\ now' = t_now
       /\ threads' = [threads EXCEPT ![t] =
            [th EXCEPT !.pc = "done", !.recent = recent,
                       !.resp = Some([Response(200, TRUE, None, "") EXCEPT
                                        !.kills = Some(recent)])]]
  /\ UNCHANGED <<Store, connected, inbox, started>>

\* ---- the handler returns
finish(t) ==
  /\ threads[t].pc = "done"
  /\ threads' = [threads EXCEPT ![t] = IdleThread]
  /\ UNCHANGED <<now, Store, connected, inbox, started, lock>>

Next ==
  \/ \E t \in Threads, d \in Reports : report_kill(t, d)
  \/ \E t \in Threads, c \in Clients, d \in Messages : handle_boss_kill(t, c, d)
  \/ \E t \in Threads : acquire(t)
  \/ \E t \in Threads : kill_boss(t)
  \/ \E t \in Threads : append_history(t)
  \/ \E t \in Threads : read_kill_time(t)
  \/ \E t \in Threads : emit_update(t)
  \/ \E t \in Threads : emit_confirm(t)
  \/ \E t \in Threads, k \in TokenInputs : reset_all(t, k)
  \/ \E t \in Threads : storage_reset_all(t)
  \/ \E t \in Threads : emit_reset(t)
  \/ \E t \in Threads, c \in Clients : handle_connect(t, c)
  \/ \E c \in Clients : handle_disconnect(c)
  \/ \E t \in Threads : get_status(t)
  \/ \E t \in Threads : get_boss_state(t)
  \/ \E t \in Threads : serialize(t)
  \/ \E t \in Threads, h \in HoursInputs : get_kills(t, h)
  \/ \E t \in Threads : call_get_recent_kills(t)
  \/ \E t \in Threads : finish(t)

Spec == Init /\ [][Next]_vars

\* the steps of one handler invocation, from the lock acquisition to the return
Step(t) ==
  \/ acquire(t) \/ kill_boss(t) \/ append_history(t) \/ read_kill_time(t)
  \/ emit_update(t) \/ emit_confirm(t) \/ storage_reset_all(t) \/ emit_reset(t)
  \/ get_boss_state(t) \/ serialize(t) \/ call_get_recent_kills(t) \/ finish(t)

\* fair scheduling: a handler whose next step stays possible takes it
FairSpec == Spec /\ \A t \in Threads : WF_vars(Step(t))

\* A store that already served CapFill or CapFill + 1 kills of one slot in its
\* first hour: the history is at or next to its cap.
CapFill == HistoryCap - 1

InitCap ==
  \E n \in {CapFill, CapFill + 1} :
    /\ now = 0
    /\ gen = 0
    /\ bosses = init_bosses(0)
    /\ heap = KillBossHeap(init_bosses(0), [r \in Refs |-> EmptyInner],
                           Some(1), StrBoss("mage"), "Alice", 0)
    /\ kill_history = [i \in 1 .. n |-> HistoryEntry(Some(1), StrBoss("mage"), "Alice", 0)]
    /\ applied = kill_history
    /\ threads = [t \in Threads |-> IdleThread]
    /\ connected = {}
    /\ inbox = [c \in Clients |-> <<>>]
    /\ started = 1
    /\ lock = None

SpecCap == InitCap /\ [][Next]_vars

\* ----------------------------------------------------------------- claims
KillOps == {"report_kill", "handle_boss_kill"}

Quiescent == \A t \in Threads : threads[t].op = "idle"

CurrentState == Deref(bosses, heap)

\* C1: an accepted kill report (success response) made exactly one store
\* mutation and exactly one boss_update fan-out; a report answered with an
\* error (400/500, kill_confirmed with success=false) made none of either.
C1_ExactlyOnceOrNothing ==
  \A t \in Threads :
    (threads[t].op \in KillOps /\ threads[t].pc = "done") =>
      IF threads[t].resp[1].success
      THEN threads[t].muts = 1 /\ threads[t].fanouts = 1
      ELSE threads[t].muts = 0 /\ threads[t].fanouts = 0

ValidSlot(floor, boss) ==
  /\ \E f \in FloorNumbers : floor = Some(f)
  /\ \E b \in BossTypes : boss = StrBoss(b)

KillBossReturns(t) ==
  threads[t].pc = "kill_boss" /\ threads'[t].pc # "kill_boss"

\* C2: kill_boss called with a floor outside 1..4 or a boss outside the four
\* types fails, and the slot map, all its records and the history are the
\* same after the call as before it.
C2_InvalidKillChangesNothing ==
  [][\A t \in Threads :
       (KillBossReturns(t) /\ ~ValidSlot(threads[t].floor, threads[t].boss)) =>
         /\ threads'[t].ok \in {"False", "raise"}
         /\ bosses' = bosses
         /\ heap' = heap
         /\ kill_history' = kill_history]_vars

C2_Witness ==
  \E t \in Threads :
    /\ threads[t].op \in KillOps
    /\ threads[t].ok = "False"
    /\ ~ValidSlot(threads[t].floor, threads[t].boss)
    /\ kill_history # <<>>
    /\ CurrentState # FreshState

\* C3: when reset_all completes, all 16 slots hold no record and the history
\* is empty, so get_recent_kills returns nothing for any window.
C3_ResetGivesFreshStore ==
  [][\A t \in Threads :
       (threads[t].pc = "reset_all" /\ threads'[t].pc = "emit_reset") =>
         /\ Deref(bosses', heap') = FreshState
         /\ kill_history' = <<>>
         /\ \A h \in HoursInputs : get_recent_kills(kill_history', now', h) = <<>>]_vars

\* C4: whenever no store operation is in progress the history holds at most
\* 100 entries.
C4_HistoryAtMostCap == Len(kill_history) <= HistoryCap

C4_Witness == Len(kill_history) = HistoryCap /\ Len(applied) > HistoryCap

\* C5: the history is exactly the most recent min(n, 100) of the n kills
\* accepted since the last initialisation, oldest first.
C5_HistoryIsLastApplied == kill_history = LastN(applied, HistoryCap)

Reverse(s) == [i \in 1 .. Len(s) |-> s[Len(s) + 1 - i]]

\* the full filter: every entry with kill_time >= cutoff, newest first
FilterInclusive(h, cutoff) ==
  LET Recent(e) == fromisoformat(e.kill_time) >= cutoff
  IN Reverse(SelectSeq(h, Recent))

\* C6: get_recent_kills(h) at time now returns exactly the entries with
\* kill_time >= now - h (the cutoff included), most recent first, as a full
\* filter and reversal of the history would.
C6_RecentKillsIncludeCutoff ==
  [][\A t \in Threads :
       (threads[t].pc = "get_recent_kills" /\ threads'[t].pc = "done") =>
         threads'[t].recent = FilterInclusive(kill_history, now' - threads[t].hours)]_vars

\* C7: a valid kill reported by client A over boss_kill puts one boss_update
\* in the inbox of every other connected client and none in A's, and A gets
\* one kill_confirmed with success=true and the same payload.
C7_UpdateToOthersConfirmToReporter ==
  [][\A t \in Threads :
       threads[t].op = "handle_boss_kill" =>
         /\ (threads[t].pc = "emit_update" /\ threads'[t].pc # "emit_update") =>
              \A c \in Clients :
                inbox'[c] =
                  IF c \in connected \ {threads[t].sid}
                  THEN Append(inbox[c], Event("boss_update", TRUE, threads[t].kill_data, None))
                  ELSE inbox[c]
         /\ (threads[t].pc = "emit_confirm" /\ threads'[t].pc = "done"
               /\ threads[t].ok = "True") =>
              /\ threads[t].fanouts = 1
              /\ threads[t].kill_data # None
              /\ threads[t].sid \in connected =>
                   inbox'[threads[t].sid] =
                     Append(inbox[threads[t].sid],
                            Event("kill_confirmed", TRUE, threads[t].kill_data, None))]_vars

\* the record a client stores for a payload
ViewRecord(d) ==
  [kill_time |-> d.kill_time, player |-> d.player, respawn_minutes |-> d.respawn_minutes]

\* a client's view after the first i events of its inbox
RECURSIVE ViewAfter(_, _)
ViewAfter(log, i) ==
  IF i = 0 THEN FreshState
  ELSE LET ev == log[i]
           prev == ViewAfter(log, i - 1)
       IN IF ev.event = "initial_state" THEN ev.state[1]
          ELSE IF ev.event = "reset_all" THEN FreshState
          ELSE IF ev.event \in {"boss_update", "kill_confirmed"} /\ ev.success
               THEN [prev EXCEPT ![FloorKey(ev.data[1].floor)][ev.data[1].boss.v] =
                                    Some(ViewRecord(ev.data[1]))]
          ELSE prev

HasInitialState(log) == \E i \in 1 .. Len(log) : log[i].event = "initial_state"

\* C8: once no handler is running, the view of every connected client (its
\* initial_state with the later boss_update, kill_confirmed and reset_all
\* events applied in order) equals the server's slot map.
C8_ViewsEqualServer ==
  Quiescent =>
    \A c \in connected :
      HasInitialState(inbox[c]) => ViewAfter(inbox[c], Len(inbox[c])) = CurrentState

\* C9: the payload of an accepted kill report carries the kill_time of the
\* record that report's own kill_boss call wrote, with the report's floor,
\* boss and player, and the response carries that payload.
C9_PayloadIsOwnRecord ==
  \A t \in Threads :
    (threads[t].op \in KillOps /\ threads[t].kill_data # None) =>
      /\ threads[t].written # None
      /\ threads[t].kill_data[1] =
           KillData(threads[t].floor, threads[t].boss, threads[t].player,
                    threads[t].written[1].kill_time)
      /\ (threads[t].pc = "done" => threads[t].resp[1].data = threads[t].kill_data)

\* C10: the contents of a snapshot returned by get_boss_state stay what they
\* were when it was returned, whatever the store does afterwards.
C10_SnapshotKeepsContents ==
  \A t \in Threads :
    threads[t].pc = "serialize" =>
      Deref(threads[t].snap[1], heap) = threads[t].ret[1]

SlotOf(floor, boss) == heap[bosses[FloorKey(floor)]][boss.v]

\* C11: kill_boss with a valid (floor, boss) succeeds and leaves the slot
\* holding a record with the caller's player, respawn_minutes = 120 and a
\* kill_time not before the clock reading preceding the call, whatever the
\* slot held before; the record is still there when the call returns.
C11_KillWritesSlot ==
  [][\A t \in Threads :
       /\ (KillBossReturns(t) /\ ValidSlot(threads[t].floor, threads[t].boss)) =>
            /\ threads'[t].pc = "append"
            /\ LET slot == heap'[bosses'[FloorKey(threads[t].floor)]][threads[t].boss.v] IN
               /\ slot # None
               /\ slot[1].player = threads[t].player
               /\ slot[1].respawn_minutes = 120
               /\ fromisoformat(slot[1].kill_time) >= now
       /\ (threads[t].pc = "append" /\ threads'[t].pc # "append") =>
            /\ threads'[t].ok = "True"
            /\ heap' = heap /\ bosses' = bosses]_vars

\* a kill of an already dead slot by another player has returned
C11_Witness ==
  \E t \in Threads :
    /\ threads[t].pc = "read"
    /\ Len(applied) >= 2
    /\ LET e == applied[Len(applied)]
           d == applied[Len(applied) - 1]
       IN /\ e.floor = d.floor /\ e.boss = d.boss /\ e.player # d.player
          /\ SlotOf(e.floor, e.boss) = Some(KillRecord(threads[t].kill_time, e.player))

BadReset(th) == th.op = "reset_all" /\ th.token # ExpectedToken
GoodReset(th) == th.op = "reset_all" /\ th.token = ExpectedToken

\* C12: a reset request whose token is absent or wrong is answered 401 at
\* once; none of its steps changes a slot or the history or sends an event.
C12_BadTokenChangesNothing ==
  [][\A t \in Threads :
       (threads'[t] # threads[t] /\ (BadReset(threads[t]) \/ BadReset(threads'[t]))) =>
         /\ BadReset(threads'[t]) =>
              /\ threads'[t].pc = "done"
              /\ threads'[t].resp[1].status = 401
              /\ ~threads'[t].resp[1].success
         /\ bosses' = bosses /\ heap' = heap /\ gen' = gen
         /\ kill_history' = kill_history
         /\ inbox' = inbox]_vars

C12_Witness ==
  \E t \in Threads :
    /\ BadReset(threads[t])
    /\ threads[t].resp # None
    /\ connected # {}
    /\ CurrentState # FreshState
    /\ kill_history # <<>>

ResetEvent == Event("reset_all", TRUE, None, None)

\* C13: a reset request with the right token goes on to reset the store (all
\* 16 slots None, nothing sent yet) and only then sends one reset_all event
\* to each connected client and answers 200.
C13_ResetThenBroadcast ==
  [][\A t \in Threads :
       /\ (threads[t].op = "idle" /\ GoodReset(threads'[t])) =>
            threads'[t].pc = "reset_all"
       /\ (GoodReset(threads[t]) /\ threads[t].pc = "reset_all"
             /\ threads'[t].pc # "reset_all") =>
            /\ threads'[t].pc = "emit_reset"
            /\ Deref(bosses', heap') = FreshState
            /\ threads[t].fanouts = 0
            /\ inbox' = inbox
       /\ (GoodReset(threads[t]) /\ threads[t].pc = "emit_reset"
             /\ threads'[t].pc # "emit_reset") =>
            /\ threads[t].muts = 1
            /\ inbox' = [c \in Clients |-> IF c \in connected
                                           THEN Append(inbox[c], ResetEvent) ELSE inbox[c]]
            /\ threads'[t].resp[1].status = 200
            /\ bosses' = bosses /\ heap' = heap]_vars

C13_Witness ==
  \E t \in Threads :
    /\ GoodReset(threads[t])
    /\ threads[t].pc = "done"
    /\ threads[t].resp[1].status = 200
    /\ connected # {}
    /\ \A c \in connected : inbox[c][Len(inbox[c])] = ResetEvent
    /\ kill_history # <<>>
    /\ CurrentState = FreshState

RecordFields == {"kill_time", "player", "respawn_minutes"}

\* a nested dict with the 4 floor keys, the 4 boss types under each, and in
\* each of the 16 slots None or one kill record
SixteenSlots(state) ==
  /\ DOMAIN state = FloorKeys
  /\ Cardinality(FloorKeys) * Cardinality(BossTypes) = 16
  /\ \A fk \in FloorKeys :
       /\ DOMAIN state[fk] = BossTypes
       /\ \A b \in BossTypes :
            \/ state[fk][b] = None
            \/ /\ Len(state[fk][b]) = 1
               /\ DOMAIN state[fk][b][1] = RecordFields

\* C14: the slot map always has exactly the 16 keys (4 floors x 4 boss
\* types) and each slot holds None or one kill record.
C14_AlwaysSixteenSlots == DOMAIN bosses = FloorKeys /\ SixteenSlots(CurrentState)

C14_Witness ==
  /\ gen >= 1
  /\ CurrentState # FreshState
  /\ \E t \in Threads : threads[t].op \in KillOps /\ threads[t].pc = "done"
                        /\ ~threads[t].resp[1].success

ConnectedEvent == Event("connected", TRUE, None, None)

\* the positions of the events of one name in a client's inbox
PositionsIn(ib, c, name) == {i \in 1 .. Len(ib[c]) : ib[c][i].event = name}
Positions(c, name) == PositionsIn(inbox, c, name)

\* C15: a connect sends the connecting client `connected` and then
\* `initial_state` carrying a full 16-slot snapshot, in this order, and
\* sends neither to any other client.
C15_ConnectGreetsOnlyCaller ==
  /\ [](\A c \in Clients :
          /\ \A i \in Positions(c, "initial_state") :
               /\ \E j \in Positions(c, "connected") : j < i
               /\ SixteenSlots(inbox[c][i].state[1])
          /\ Cardinality(Positions(c, "initial_state")) <= 1
          /\ Cardinality(Positions(c, "connected")) <= 1)
  /\ [][\A t \in Threads :
          /\ (threads[t].op = "idle" /\ threads'[t].op = "handle_connect") =>
               LET c == threads'[t].sid IN
               /\ PositionsIn(inbox', c, "connected") = {Len(inbox'[c])}
               /\ \A d \in Clients \ {c} : inbox'[d] = inbox[d]
          /\ (threads[t].op = "handle_connect" /\ threads[t].pc = "serialize"
                /\ threads'[t].pc # "serialize") =>
               LET c == threads[t].sid IN
               /\ c \in connected =>
                    /\ Len(inbox'[c]) = Len(inbox[c]) + 1
                    /\ PositionsIn(inbox', c, "initial_state") = {Len(inbox'[c])}
               /\ \A d \in Clients \ {c} : inbox'[d] = inbox[d]]_vars

C15_Witness ==
  /\ connected = Clients
  /\ \A c \in Clients : Positions(c, "initial_state") # {}
  /\ \E c \in Clients : \E i \in Positions(c, "initial_state") :
       inbox[c][i].state[1] # FreshState

HttpOps == {"report_kill", "reset_all", "get_status", "get_kills"}

\* C16: under fair scheduling every request that was started reaches its
\* return, an HTTP request with a response, and the store lock is released
\* on every path, so no call waits for it forever.
C16_EveryCallCompletes ==
  /\ \A t \in Threads : (threads[t].op # "idle") ~> (threads[t].pc = "done")
  /\ \A t \in Threads : (lock = Some(t)) ~> (lock = None)
  /\ [](\A t \in Threads :
          (threads[t].pc = "done" /\ threads[t].op \in HttpOps) => threads[t].resp # None)

C16_Witness ==
  \E t \in Threads, u \in Threads :
    /\ threads[t].op = "report_kill" /\ threads[t].pc = "done"
    /\ threads[t].resp[1].status = 500
    /\ lock = None
    /\ threads[u].pc \in LockedCalls

\* the pcs at which a handler's next step reads or writes the slot map or the
\* history: the four store methods and the subscript at lines 174 / 244
StoreAccessPcs == LockedCalls \cup {"append", "read"}

\* C17: every read and write of the slot map or the history, by a store
\* method or by a handler, is made by the thread that holds the store lock.
C17_AllAccessUnderLock ==
  [][\A t \in Threads :
       (threads[t].pc \in StoreAccessPcs /\ threads'[t].pc # threads[t].pc) =>
         lock = Some(t)]_vars

\* a slot record r of (fk, b) has its entry in the history h
Backed(fk, b, r, h) ==
  \E i \in 1 .. Len(h) :
    /\ FloorKey(h[i].floor) = fk /\ h[i].boss.v = b
    /\ h[i].kill_time = r.kill_time /\ h[i].player = r.player

LastEntryAgrees ==
  (lock = None /\ kill_history # <<>>) =>
    LET e == kill_history[Len(kill_history)]
        slot == SlotOf(e.floor, e.boss)
    IN IF slot = None THEN applied = <<>>
       ELSE slot[1].kill_time = e.kill_time /\ slot[1].player = e.player

\* C18: whenever the lock is free the last history entry and its slot agree
\* (same kill_time and player, or the slot cleared by a later reset), and no
\* step of another operation reads a slot record whose history entry is not
\* there yet.
C18_KillAppliedAtomically ==
  /\ []LastEntryAgrees
  /\ [][\A u \in Threads :
          /\ (threads[u].pc = "read" /\ threads'[u].pc # "read") =>
               LET slot == SlotOf(threads[u].floor, threads[u].boss) IN
               slot # None =>
                 Backed(FloorKey(threads[u].floor), threads[u].boss.v, slot[1], kill_history)
          /\ (threads[u].pc = "serialize" /\ threads'[u].pc # "serialize") =>
               LET content == Deref(threads[u].snap[1], heap) IN
               \A fk \in FloorKeys, b \in BossTypes :
                 content[fk][b] # None => Backed(fk, b, content[fk][b][1], kill_history)]_vars

\* C19: the kill_times of the history never decrease from the oldest entry
\* to the newest, whatever the interleaving of the kill reports.
C19_HistoryChronological ==
  \A i \in 1 .. Len(kill_history) - 1 :
    fromisoformat(kill_history[i].kill_time) <= fromisoformat(kill_history[i + 1].kill_time)

C19_Witness ==
  /\ Len(kill_history) >= 2
  /\ fromisoformat(kill_history[1].kill_time)
       < fromisoformat(kill_history[Len(kill_history)].kill_time)
  /\ \A t \in Threads : threads[t].op \in KillOps /\ threads[t].muts = 1

\* the slots other than (fk, b) hold the same in both heaps
OtherSlotsSame(hp1, hp2, fk, b) ==
  \A r \in Refs : \A x \in BossTypes :
    (r # bosses[fk] \/ x # b) => hp2[r][x] = hp1[r][x]

\* C20: an accepted kill changes the slot (floor, boss) and no other slot and
\* appends one entry to the history (the oldest entry falling off at the
\* cap); get_boss_state and get_recent_kills change neither.
C20_KillChangesOnlyItsSlot ==
  [][\A t \in Threads :
       /\ (threads[t].pc = "kill_boss" /\ threads'[t].pc = "append") =>
            /\ OtherSlotsSame(heap, heap', FloorKey(threads[t].floor), threads[t].boss.v)
            /\ bosses' = bosses
            /\ kill_history' = kill_history
       /\ (threads[t].pc = "append" /\ threads'[t].pc # "append") =>
            LET n == Len(kill_history)
                e == HistoryEntry(threads[t].floor, threads[t].boss, threads[t].player,
                                  threads[t].kill_time)
            IN
            /\ heap' = heap /\ bosses' = bosses
            /\ kill_history' = IF n < HistoryCap THEN Append(kill_history, e)
                               ELSE Append(Tail(kill_history), e)
       /\ (threads[t].pc \in {"get_boss_state", "get_recent_kills"}
             /\ threads'[t].pc # threads[t].pc) =>
            /\ heap' = heap /\ bosses' = bosses
            /\ kill_history' = kill_history]_vars

C20_Witness ==
  \E t \in Threads :
    /\ threads[t].pc = "read"
    /\ Len(kill_history) = HistoryCap
    /\ kill_history[HistoryCap].boss.v = "healer"
    /\ SlotOf(Some(2), StrBoss("healer")) # None
    /\ SlotOf(Some(1), StrBoss("mage")) = Some(KillRecord(0, "Alice"))
    /\ Cardinality({r \in Refs : heap[r] # EmptyInner}) = 2
====
